---- MODULE Spec2Model ----
(***************************************************************************)
(* Model of scripts/audit_and_tag_tests.py: the test audit that locates    *)
(* Rust test functions, matches them against PATTERNS and inserts          *)
(* "// @audit: ..." comments in place.                                     *)
(*                                                                         *)
(* A file's text is modelled by the list content.split('\n') of its lines  *)
(* (never empty: ''.split('\n') = ['']); '\n'.join of that list gives the  *)
(* text back, so two texts are equal iff their line lists are.  A line is  *)
(* a record of exactly the features the script reads off it.               *)
(***************************************************************************)
EXTENDS Integers, Sequences, FiniteSets, TLC

(* ------------------------------ bounds -------------------------------- *)
\* longest file (in lines) given to main
MaxLen == 4
\* longest text (in lines) given directly to insert_audit_tag
MaxCallLen == 6

(* ------------------------------ lines --------------------------------- *)
\* test  : '#[test]' in line
\* fn    : re.search(r'fn\s+(\w+)\s*\(', line)
\* ob,cb : line.count('{'), line.count('}')
\* audit : '@audit' in line
\* indent: re.match(r'^(\s*)', line).group(1), in units of four blanks
\* ws    : the line is empty or blank
\* hits  : the patterns of PATTERNS that match inside the line
\* tail  : the line ends in 'vec![' ; head : the line begins with 'Token::\w+'
\* tags  : the category names after '// @audit: ' (comment lines only)
Plain ==
  [test |-> FALSE, fn |-> FALSE, ob |-> 0, cb |-> 0, audit |-> FALSE,
   indent |-> 0, ws |-> FALSE, hits |-> {}, tail |-> FALSE, head |-> FALSE,
   tags |-> <<>>]

\* ''
BlankLine == [Plain EXCEPT !.ws = TRUE]
\* '#[test]'
AttrLine == [Plain EXCEPT !.test = TRUE]
\* 'fn t() {'
FnOpenLine == [Plain EXCEPT !.fn = TRUE, !.ob = 1]
\* '}'
CloseLine == [Plain EXCEPT !.cb = 1]
\* 'fn t() { ok(); }'
FnOneLine == [Plain EXCEPT !.fn = TRUE, !.ob = 1, !.cb = 1]
\* 'fn t() { Token::Text; }'
FnBadLine == [Plain EXCEPT !.fn = TRUE, !.ob = 1, !.cb = 1, !.hits = {"mc3"}]
\* 'fn t() { Position::new(0, 0); let source = "a\n"; }'
FnTwoLine ==
  [Plain EXCEPT !.fn = TRUE, !.ob = 1, !.cb = 1, !.hits = {"ns3", "hs1"}]
\* '    Position::new(0, 0);'
BodyNsLine == [Plain EXCEPT !.indent = 1, !.hits = {"ns3"}]
\* '    let v = vec!['
VecOpenLine == [Plain EXCEPT !.indent = 1, !.tail = TRUE]
\* '    Token::Foo(1)];'
TokHeadLine == [Plain EXCEPT !.indent = 1, !.head = TRUE]

\* f'{indent}// @audit: {violation_tags}'
AuditLine(indent, violation_tags) ==
  [Plain EXCEPT !.audit = TRUE, !.indent = indent, !.tags = violation_tags]

(* ----------------------------- PATTERNS ------------------------------- *)
\* the rule table, in the dict's insertion order; a rule is named by its
\* category's initials and its position in the category's list
PATTERNS ==
  << [cat |-> "no_source", rules |-> <<"ns1", "ns2", "ns3", "ns4">>],
     [cat |-> "manual_construction", rules |-> <<"mc1", "mc2", "mc3">>],
     [cat |-> "hardcoded_source",
      rules |-> <<"hs1", "hs2", "hs3", "hs4", "hs5", "hs6">>] >>

Categories == {PATTERNS[c].cat : c \in 1..Len(PATTERNS)}

\* sorted() on category names: alphabetical order
SortedNames == <<"hardcoded_source", "manual_construction", "no_source">>

Sorted(violations) ==
  LET keep(i) == SortedNames[i] \in violations
      RECURSIVE from(_)
      from(i) == IF i > Len(SortedNames) THEN <<>>
                 ELSE (IF keep(i) THEN <<SortedNames[i]>> ELSE <<>>) \o from(i + 1)
  IN  from(1)

Min(a, b) == IF a < b THEN a ELSE b
Max(a, b) == IF a > b THEN a ELSE b

\* Python slice lines[lo:hi] for 0 <= lo (0-based, hi exclusive, clamped)
Slice(lines, lo, hi) ==
  LET h == Min(hi, Len(lines))
  IN  IF lo >= h THEN <<>> ELSE SubSeq(lines, lo + 1, h)

\* list.insert(index, x): a negative index counts from the end, and the
\* position is clamped to [0, len]
InsertPos(lines, index) ==
  IF index < 0 THEN Max(index + Len(lines), 0) ELSE Min(index, Len(lines))

ListInsert(lines, index, x) ==
  LET p == InsertPos(lines, index)
  IN  Slice(lines, 0, p) \o <<x>> \o Slice(lines, p, Len(lines))

\* content.count('\n')
CountNewlines(lines) == Len(lines) - 1

(* ----------------------- extract_test_functions ----------------------- *)
\* for j in range(i, min(i + 5, len(lines))): the first declaration line,
\* as a 1-based line number, or 0 when the window has none (i1 is i + 1)
RECURSIVE FindFn(_, _, _)
FindFn(lines, j1, stop1) ==
  IF j1 > stop1 THEN 0
  ELSE IF lines[j1].fn THEN j1
  ELSE FindFn(lines, j1 + 1, stop1)

\* for k in range(j, len(lines)): the brace scan; dflt is end_line = j + 1
RECURSIVE ScanBraces(_, _, _, _)
ScanBraces(lines, k1, brace_count, dflt) ==
  IF k1 > Len(lines) THEN dflt
  ELSE LET c == brace_count + lines[k1].ob - lines[k1].cb
       IN  IF c = 0 /\ lines[k1].ob > 0 THEN k1
           ELSE ScanBraces(lines, k1 + 1, c, dflt)

\* a record is the tuple (fn_name, start_line, end_line); the captured name
\* is modelled by the number of the line it is captured from
RECURSIVE ExtractFrom(_, _)
ExtractFrom(lines, i1) ==
  IF i1 > Len(lines) THEN <<>>
  ELSE LET j1 == IF lines[i1].test
                 THEN FindFn(lines, i1, Min(i1 + 4, Len(lines)))
                 ELSE 0
       IN  (IF j1 # 0
            THEN << [fn_name |-> j1, start_line |-> i1,
                     end_line |-> ScanBraces(lines, j1, 0, j1)] >>
            ELSE <<>>) \o ExtractFrom(lines, i1 + 1)

extract_test_functions(content) == ExtractFrom(content, 1)

(* -------------------------- detect_violations ------------------------- *)
\* 'vec!\[[\s\n]*Token::\w+' across line breaks: a line ending in 'vec![' ,
\* then blank lines only, then a line beginning with 'Token::\w+'
CrossLine(section) ==
  \E i \in 1..Len(section) : \E j \in (i + 1)..Len(section) :
     /\ section[i].tail
     /\ section[j].head
     /\ \A m \in (i + 1)..(j - 1) : section[m].ws

\* re.search(pattern, section)
Search(pattern, section) ==
  \/ \E i \in 1..Len(section) : pattern \in section[i].hits
  \/ pattern = "mc2" /\ CrossLine(section)

\* for pattern in patterns: if re.search(...): add; break
RECURSIVE AnyPattern(_, _, _)
AnyPattern(patterns, n, section) ==
  IF n > Len(patterns) THEN FALSE
  ELSE IF Search(patterns[n], section) THEN TRUE
  ELSE AnyPattern(patterns, n + 1, section)

\* variant: the `break` leaves the loop over the categories as well
RECURSIVE DetectFrom_break_outer(_, _)
DetectFrom_break_outer(c, section) ==
  IF c > Len(PATTERNS) THEN {}
  ELSE IF AnyPattern(PATTERNS[c].rules, 1, section) THEN {PATTERNS[c].cat}
  ELSE DetectFrom_break_outer(c + 1, section)

\* for violation_type, patterns in PATTERNS.items()
RECURSIVE DetectFrom(_, _)
DetectFrom(c, section) ==
  IF c > Len(PATTERNS) THEN {}
  ELSE (IF AnyPattern(PATTERNS[c].rules, 1, section)
        THEN {PATTERNS[c].cat} ELSE {}) \cup DetectFrom(c + 1, section)

detect_violations(content, start_line, end_line) ==
  DetectFrom(1, Slice(content, start_line - 1, end_line))

(* ---------------------------- has_audit_tag --------------------------- *)
\* for i in range(max(0, test_start_line - 5), test_start_line)
has_audit_tag(content, test_start_line) ==
  \E i \in Max(0, test_start_line - 5)..(test_start_line - 1) :
     content[i + 1].audit

(* --------------------------- insert_audit_tag ------------------------- *)
\* the while loop that looks for the '#[test]' line
RECURSIVE WalkUp(_, _, _)
WalkUp(lines, test_attr_line, test_start_line) ==
  IF test_attr_line > 0 /\ ~lines[test_attr_line].test
  THEN IF test_attr_line - 1 = 0 THEN test_start_line - 1
       ELSE WalkUp(lines, test_attr_line - 1, test_start_line)
  ELSE test_attr_line

TestAttrLine(lines, test_start_line) ==
  WalkUp(lines, test_start_line - 1, test_start_line)

\* variant: the `if has_audit_tag(...): return content` check is missing
insert_audit_tag_unchecked(content, test_start_line, violations) ==
  LET test_attr_line == TestAttrLine(content, test_start_line)
      indent == IF test_attr_line > 0
                THEN content[test_attr_line].indent ELSE 0
      audit_line == AuditLine(indent, Sorted(violations))
  IN  ListInsert(content, test_attr_line - 1, audit_line)

insert_audit_tag(content, test_start_line, violations) ==
  IF has_audit_tag(content, test_start_line) THEN content
  ELSE LET test_attr_line == TestAttrLine(content, test_start_line)
           indent == IF test_attr_line > 0
                     THEN content[test_attr_line].indent ELSE 0
           audit_line == AuditLine(indent, Sorted(violations))
       IN  ListInsert(content, test_attr_line - 1, audit_line)

(* ------------------------------- state -------------------------------- *)
\* disk             the text of the candidate file under root_dir.  main
\*                  keeps nothing but the report's counters from one file
\*                  to the next, so the tree is modelled with one file, and
\*                  find_test_files is taken to have returned it
\* run              1 for the first invocation of main, 2 for the second
\* pc               position inside main
\* content, tests, t, modified_content, offset
\*                  main's locals for the file being processed; t is the
\*                  position of the for loop in tests
\* total_tests, tests_with_violations, violation_counts, files_modified
\*                  stats and the report's accumulators
\* writes           number of times this run opened the file for writing
\* listing          the "  - name: categories" lines printed so far
\* origin           history: for each line of modified_content, its line
\*                  number in content, or 0 for a line inserted in this run
\* tagged           history: positions in tests whose function caused an
\*                  insertion in this run
\* after_first      history: disk at the end of the first run
\* args, ret        argument and result of a direct insert_audit_tag call
VARIABLES disk, run, pc, content, tests, t, modified_content, offset,
          total_tests, tests_with_violations, violation_counts,
          files_modified, writes, listing, origin, tagged, after_first,
          args, ret

vars == << disk, run, pc, content, tests, t, modified_content, offset,
           total_tests, tests_with_violations, violation_counts,
           files_modified, writes, listing, origin, tagged, after_first,
           args, ret >>

locals == << content, tests, t, modified_content, offset, origin, tagged >>
stats == << total_tests, tests_with_violations, violation_counts, listing >>

\* the lines a file given to main is made of
SourceLines ==
  {BlankLine, AttrLine, FnOpenLine, CloseLine, FnOneLine, FnBadLine,
   FnTwoLine, BodyNsLine, VecOpenLine, TokHeadLine}

Texts(alphabet, n) == UNION {[1..m -> alphabet] : m \in 1..n}

NoCounts == [c \in Categories |-> 0]
NoArgs == [start |-> 0, violations |-> {}]

Init ==
  /\ disk \in Texts(SourceLines, MaxLen)
  /\ run = 1
  /\ pc = "start"
  /\ content = <<>> /\ tests = <<>> /\ t = 0
  /\ modified_content = <<>> /\ offset = 0
  /\ origin = <<>> /\ tagged = {}
  /\ total_tests = 0 /\ tests_with_violations = 0
  /\ violation_counts = NoCounts
  /\ files_modified = <<>> /\ writes = 0 /\ listing = <<>>
  /\ after_first = <<>>
  /\ args = NoArgs /\ ret = <<>>

(* -------------------------------- main -------------------------------- *)
\* open + read + extract_test_functions; `if not tests: continue`
ReadFile ==
  /\ pc = "start"
  /\ content' = disk
  /\ tests' = extract_test_functions(disk)
  /\ modified_content' = disk
  /\ offset' = 0
  /\ t' = 1
  /\ origin' = [i \in 1..Len(disk) |-> i]
  /\ tagged' = {}
  /\ pc' = IF tests' = <<>> THEN "done" ELSE "loop"
  /\ UNCHANGED << disk, run, stats, files_modified, writes, after_first,
                  args, ret >>

\* one iteration of `for test_name, start_line, end_line in tests`
ProcessTest ==
  /\ pc = "loop"
  /\ t <= Len(tests)
  /\ LET start_line == tests[t].start_line
         end_line == tests[t].end_line
         violations == detect_violations(content, start_line, end_line)
         insert == /\ violations # {}
                   /\ ~has_audit_tag(modified_content, start_line + offset)
         new_content == insert_audit_tag(modified_content,
                                         start_line + offset, violations)
     IN  /\ total_tests' = total_tests + 1
         /\ tests_with_violations' =
              IF violations # {} THEN tests_with_violations + 1
              ELSE tests_with_violations
         /\ violation_counts' =
              [v \in Categories |->
                 IF v \in violations THEN violation_counts[v] + 1
                 ELSE violation_counts[v]]
         /\ listing' =
              IF violations # {}
              THEN Append(listing, [test_name |-> tests[t].fn_name,
                                    violation_str |-> Sorted(violations)])
              ELSE listing
         /\ offset' =
              IF insert
              THEN offset + (CountNewlines(new_content)
                               - CountNewlines(modified_content))
              ELSE offset
         /\ modified_content' = IF insert THEN new_content ELSE modified_content
         /\ origin' =
              IF insert
              THEN ListInsert(origin,
                     TestAttrLine(modified_content, start_line + offset) - 1, 0)
              ELSE origin
         /\ tagged' = IF insert THEN tagged \cup {t} ELSE tagged
  /\ t' = t + 1
  /\ UNCHANGED << disk, run, pc, content, tests, files_modified, writes,
                  after_first, args, ret >>

\* variant: the file is written and recorded whether or not it changed
WriteBack_always ==
  /\ pc = "loop"
  /\ t > Len(tests)
  /\ disk' = modified_content
  /\ writes' = writes + 1
  /\ files_modified' = Append(files_modified, "test_file")
  /\ pc' = "done"
  /\ UNCHANGED << run, locals, stats, after_first, args, ret >>

\* `if modified_content != content`: write and record; end of main
WriteBack ==
  /\ pc = "loop"
  /\ t > Len(tests)
  /\ IF modified_content # content
     THEN /\ disk' = modified_content
          /\ writes' = writes + 1
          /\ files_modified' = Append(files_modified, "test_file")
     ELSE UNCHANGED << disk, writes, files_modified >>
  /\ pc' = "done"
  /\ UNCHANGED << run, locals, stats, after_first, args, ret >>

\* the script is started again on the tree the first run left behind
Rerun ==
  /\ pc = "done"
  /\ run = 1
  /\ run' = 2
  /\ after_first' = disk
  /\ pc' = "start"
  /\ content' = <<>> /\ tests' = <<>> /\ t' = 0
  /\ modified_content' = <<>> /\ offset' = 0
  /\ origin' = <<>> /\ tagged' = {}
  /\ total_tests' = 0 /\ tests_with_violations' = 0
  /\ violation_counts' = NoCounts
  /\ files_modified' = <<>> /\ writes' = 0 /\ listing' = <<>>
  /\ UNCHANGED << disk, args, ret >>

Next == ReadFile \/ ProcessTest \/ WriteBack \/ Rerun

Spec == Init /\ [][Next]_vars

(* ---------------- insert_audit_tag called on its own ------------------- *)
\* the lines a text given directly to insert_audit_tag is made of
CallLines == {BodyNsLine, AttrLine, AuditLine(0, <<"no_source">>)}

InitCall ==
  /\ content \in Texts(CallLines, MaxCallLen)
  /\ args \in [start : 1..Len(content), violations : SUBSET Categories]
  /\ pc = "call"
  /\ ret = <<>>
  /\ disk = <<>> /\ run = 0
  /\ tests = <<>> /\ t = 0
  /\ modified_content = <<>> /\ offset = 0
  /\ origin = <<>> /\ tagged = {}
  /\ total_tests = 0 /\ tests_with_violations = 0
  /\ violation_counts = NoCounts
  /\ files_modified = <<>> /\ writes = 0 /\ listing = <<>>
  /\ after_first = <<>>

CallInsert ==
  /\ pc = "call"
  /\ ret' = insert_audit_tag(content, args.start, args.violations)
  /\ pc' = "returned"
  /\ UNCHANGED << disk, run, locals, stats, files_modified, writes,
                  after_first, args >>

NextCall == CallInsert

SpecCall == InitCall /\ [][NextCall]_vars

(* ======================= properties of the audit ======================= *)
\* the categories with at least one rule matching in lines first..last
MatchingCategories(lines, first, last) ==
  {PATTERNS[c].cat :
     c \in {d \in 1..Len(PATTERNS) :
              \E n \in 1..Len(PATTERNS[d].rules) :
                 Search(PATTERNS[d].rules[n], SubSeq(lines, first, last))}}

\* the first line at or after line k1 on which the brace depth, counted
\* from the declaration line, is back at zero after having been positive;
\* 0 when there is none
RECURSIVE ClosingLine(_, _, _)
ClosingLine(lines, k1, depth) ==
  IF k1 > Len(lines) THEN 0
  ELSE LET d == depth + lines[k1].ob - lines[k1].cb
       IN  IF d = 0 /\ (depth > 0 \/ lines[k1].ob > 0) THEN k1
           ELSE ClosingLine(lines, k1 + 1, d)

Violations(i) ==
  detect_violations(content, tests[i].start_line, tests[i].end_line)

Processing == pc = "loop" \/ (pc = "done" /\ tests # <<>>)

\* C1: a second run of main on the files a first run produced leaves every
\* file's content as it was after the first run.
C1_Idempotent ==
  (run = 2 /\ pc = "done") => disk = after_first

\* C2: for a record of extract_test_functions, non-empty violations and no
\* marker in the lookback window, insert_audit_tag adds exactly one line,
\* directly above the function's own '#[test]' line, with that line's
\* indentation, reading '// @audit: ' and the sorted category names.
C2_MarkerAboveAttribute ==
  (pc = "loop" /\ t <= Len(tests) /\ offset = 0) =>
    LET s == tests[t].start_line
    IN  (Violations(t) # {} /\ ~has_audit_tag(content, s)) =>
          insert_audit_tag(content, s, Violations(t)) =
            SubSeq(content, 1, s - 1)
              \o << AuditLine(content[s].indent, Sorted(Violations(t))) >>
              \o SubSeq(content, s, Len(content))

\* C3: while a file's records are processed, the line of the buffer at
\* start_line + offset is, for every record not yet processed, the original
\* line start_line.
C3_OffsetPointsAtAttribute ==
  pc = "loop" =>
    \A i \in t..Len(tests) :
       origin[tests[i].start_line + offset] = tests[i].start_line

\* C4 as stated: insert_audit_tag returns its input when has_audit_tag is
\* true or violations is empty, and one more line in every other case.
C4_NoOpOnTagOrEmpty ==
  pc = "returned" =>
    IF has_audit_tag(content, args.start) \/ args.violations = {}
    THEN ret = content
    ELSE Len(ret) = Len(content) + 1

\* C4 amended: insert_audit_tag returns its input when has_audit_tag is
\* true; in every other case, an empty violations set included, it returns
\* a text with exactly one more line.
C4_NoOpOnTagOnly ==
  pc = "returned" =>
    IF has_audit_tag(content, args.start)
    THEN ret = content
    ELSE Len(ret) = Len(content) + 1

C4_Witness ==
  /\ pc = "returned"
  /\ args.violations = {}
  /\ ~has_audit_tag(content, args.start)
  /\ Len(ret) = Len(content) + 1
  /\ \E i \in 1..Len(ret) : ret[i] = AuditLine(ret[i].indent, <<>>)

BufferPreserved ==
  Processing =>
    /\ Len(origin) = Len(modified_content)
    /\ SelectSeq(origin, LAMBDA o : o # 0) = [i \in 1..Len(content) |-> i]
    /\ \A i \in 1..Len(origin) :
          IF origin[i] = 0 THEN modified_content[i].audit
          ELSE modified_content[i] = content[origin[i]]
    /\ Cardinality({i \in 1..Len(origin) : origin[i] = 0}) = Cardinality(tagged)
    /\ pc = "loop" => (writes = 0 /\ files_modified = <<>> /\ disk = content)
    /\ pc = "done" =>
         IF tagged # {}
         THEN writes = 1 /\ files_modified = <<"test_file">>
              /\ disk = modified_content
         ELSE writes = 0 /\ files_modified = <<>> /\ disk = content

SkippedUntouched ==
  (pc = "done" /\ tests = <<>>) =>
    (writes = 0 /\ files_modified = <<>> /\ disk = content)

\* C5: the buffer without the lines inserted in this run is the original
\* text, line for line; and the file is written and listed in
\* files_modified exactly when a line was inserted, so a file without
\* located functions or without a newly tagged one is left untouched.
C5_Preserved == BufferPreserved /\ SkippedUntouched

C5_Witness ==
  /\ pc = "done"
  /\ Cardinality(tagged) = 2
  /\ writes = 1
  /\ Len(disk) = Len(content) + 2

\* C6: a located function whose own lines, from its '#[test]' line to the
\* line closing its opening brace, match no pattern has an empty violation
\* set, is not annotated and is not listed.
C6_Conservative ==
  Processing =>
    \A i \in 1..(t - 1) :
       LET close == ClosingLine(content, tests[i].fn_name, 0)
       IN  (close # 0
            /\ MatchingCategories(content, tests[i].start_line, close) = {})
           => (Violations(i) = {} /\ i \notin tagged)

\* C7: end_line is the first line, at or after the declaration line, on
\* which the brace depth returns to zero after having been positive.
C7_EndLineClosesBrace ==
  Processing =>
    \A i \in 1..Len(tests) :
       LET close == ClosingLine(content, tests[i].fn_name, 0)
       IN  close # 0 => tests[i].end_line = close

\* C8: the records' start_line values are strictly ascending, no
\* declaration line is captured by more than one record, and a '#[test]'
\* line with no declaration on it or the four lines below has no record.
C8_OneRecordPerFunction ==
  Processing =>
    /\ \A i, k \in 1..Len(tests) :
          i < k => /\ tests[i].start_line < tests[k].start_line
                   /\ tests[i].fn_name # tests[k].fn_name
    /\ \A i \in 1..Len(tests) :
          /\ content[tests[i].start_line].test
          /\ \E j \in tests[i].start_line..(tests[i].start_line + 4) :
                j <= Len(content) /\ content[j].fn

\* C9: detect_violations returns exactly the categories with a rule that
\* matches in lines start_line..end_line of the original text; main counts
\* a function in tests_with_violations iff that set is non-empty and in a
\* category's tally iff the category is in it, marked or not.
C9_DetectionExact ==
  Processing =>
    LET exact(i) == MatchingCategories(content, tests[i].start_line,
                                       tests[i].end_line)
        done == 1..(t - 1)
    IN  /\ \A i \in 1..Len(tests) : Violations(i) = exact(i)
        /\ total_tests = t - 1
        /\ tests_with_violations = Cardinality({i \in done : exact(i) # {}})
        /\ \A c \in Categories :
              violation_counts[c] = Cardinality({i \in done : c \in exact(i)})
        /\ Len(listing) = tests_with_violations

C9_Witness ==
  /\ run = 2 /\ pc = "done"
  /\ tagged = {}
  /\ tests_with_violations = 1
  /\ violation_counts =
       [c \in Categories |-> IF c = "manual_construction" THEN 0 ELSE 1]
  /\ listing[1].violation_str = <<"hardcoded_source", "no_source">>
  /\ has_audit_tag(content, tests[1].start_line)

\* C10: in a run over a file without markers, every function with a
\* non-empty violation set gets exactly one marker line, so the final
\* buffer holds as many marker lines as the file has flagged functions.
C10_EveryFlaggedTagged ==
  (pc = "done" /\ tests # <<>>
     /\ \A i \in 1..Len(content) : ~content[i].audit) =>
    LET flagged == {i \in 1..Len(tests) : Violations(i) # {}}
    IN  /\ tagged = flagged
        /\ Cardinality({i \in 1..Len(modified_content) :
                          modified_content[i].audit}) = Cardinality(flagged)
====
